---- MODULE Spec2Model ----
(***************************************************************************)
(* A model of advanced_patterns.py: the parameterized retry decorator and  *)
(* the generator pipeline read_large_file / search_logs / filter_logs.     *)
(*                                                                         *)
(* Retry: one decorated callable (one closure holding max_attempts and     *)
(* delay) and a set of calls of its wrapper, each call with its own frame. *)
(* The operation a call wraps is a script: the outcome of its i-th         *)
(* invocation.  A value or an exception is identified by the invocation    *)
(* that produced it.                                                       *)
(*                                                                         *)
(* Pipeline: a chain of generator frames, stage 1 the source, driven by a  *)
(* consumer that pulls one record at a time.                               *)
(*                                                                         *)
(* ImmutableConfig (dunder_protocol_demo.py): the class-level map of       *)
(* instances by key, the attributes of each instance, and the calls        *)
(* ImmutableConfig(key, value) as __new__ followed by __init__.            *)
(***************************************************************************)
EXTENDS Integers, Sequences, FiniteSets

VARIABLES
    \* ---- retry(max_attempts, delay): the closure ----
    max_attempts,   \* closure variable of retry()
    delay,          \* closure variable of retry()
    \* ---- calls of wrapper(*args, **kwargs) ----
    calls,          \* the calls of the wrapped callable that take place
    script,         \* script[c][i]: what func(*args, **kwargs) does at its i-th invocation
    pc,             \* pc[c]: where call c stands in wrapper
    attempts_left,  \* attempts_left[c]: the local of wrapper
    e,              \* e[c]: the exception bound by "except ConnectionError as e"
    events,         \* events[c]: invocations, notices and sleeps of call c, in order
    outcome,        \* outcome[c]: what the call gave its caller
    \* ---- generator pipeline ----
    pipes,          \* the pipelines that are built
    chain,          \* chain[p]: the generators of pipeline p and their arguments, source first
    take,           \* take[p]: how many records the consumer prints before it breaks
    gen,            \* gen[p][s]: the frame of generator s
    ctl,            \* ctl[p]: the frame that runs; Len(chain[p]) + 1 is the consumer
    sig,            \* sig[p]: what is handed to the frame that runs
    out,            \* out[p]: the lines the consumer printed
    received,       \* received[p]: the records the consumer was handed
    pulls,          \* pulls[p]: next() calls of the consumer
    realized,       \* realized[p]: the records the source produced, in order
    dropped,        \* dropped[p]: the records a stage tested and did not yield
    ended,          \* ended[p]: "no" | "exhausted" | "break" | "raised"
    failure,        \* failure[p]: the exception a pull raised to the consumer
    \* ---- class ImmutableConfig ----
    instances,      \* cls._instances: key -> object
    attrs,          \* attrs[o]: the attributes of instance o, by name
    building,       \* the call ImmutableConfig(key, value) between __new__ and __init__
    made,           \* the calls ImmutableConfig(key, value) that returned, with their result
    sets            \* the assignments obj.name = v from outside the class, with their end

retryVars == <<max_attempts, delay, calls, script, pc, attempts_left, e, events, outcome>>
pipeVars == <<pipes, chain, take, gen, ctl, sig, out, received, pulls, realized, dropped, ended,
              failure>>
cfgVars == <<instances, attrs, building, made, sets>>
vars == <<retryVars, pipeVars, cfgVars>>

\* ------------------------------------------------------------------ bounds
MaxAttempts == 3
MaxNumLines == 7
MaxLines == 3
MaxTake == 5
MaxAgain == 2

None == [kind |-> "None"]

\* ==================================================================== retry

\* What func can do at one invocation: return, raise ConnectionError, raise
\* an exception that is not a ConnectionError.
Outcomes == {"ok", "ConnectionError", "Exception"}

ScriptLen == MaxAttempts + 1

Scripts == [1..ScriptLen -> Outcomes]

\* Scripts of the shape of flaky_network_call: ConnectionError on the first
\* failures invocations (counter['failures']), then the last outcome for good.
FlakyScript(failures, last) ==
    [i \in 1..ScriptLen |-> IF i <= failures THEN "ConnectionError" ELSE last]

FlakyScripts ==
    {FlakyScript(k, last) : k \in 0..ScriptLen, last \in {"ok", "Exception"}}

\* max_attempts: int and delay: float are not validated by retry(); a policy
\* has max_attempts >= 1 and delay >= 0, and 0 and -1 stand for the values
\* below 1 that retry() also takes.
AttemptValues == (0 - 1)..MaxAttempts
DelayValues == {0, 1}

\* func(*args, **kwargs) at its i-th invocation within call c.
FuncOutcome(c, i) ==
    IF i <= ScriptLen THEN script[c][i] ELSE script[c][ScriptLen]

Invokes(c) == SelectSeq(events[c], LAMBDA ev : ev.ev = "invoke")
Warnings(c) == SelectSeq(events[c], LAMBDA ev : ev.ev = "warning")
Errors(c) == SelectSeq(events[c], LAMBDA ev : ev.ev = "error")
Sleeps(c) == SelectSeq(events[c], LAMBDA ev : ev.ev = "sleep")

invocations(c) == Len(Invokes(c))

Log(c, ev) == [events EXCEPT ![c] = Append(@, ev)]

\* attempts_left = max_attempts
InitialAttemptsOneLess == max_attempts - 1
InitialAttempts == max_attempts

\* attempts_left -= 1
DecrementForgotten(c) == attempts_left
DecrementShared(c) ==
    [d \in DOMAIN attempts_left |->
        IF pc[d] = "ready" THEN attempts_left[d] ELSE attempts_left[d] - 1]
Decrement(c) == [attempts_left EXCEPT ![c] = @ - 1]

\* the bare raise of the handler: the exception being handled
ReraisedFirst(c) == [kind |-> "ConnectionError", id |-> 1]
Reraised(c) == e[c]

\* while attempts_left > 0
LoopGuard(c) == attempts_left[c] > 0

\* if attempts_left > 0, in the handler
RetryAgainOffByOne(n) == n >= 0
RetryAgain(n) == n > 0

\* after logging.warning(...) comes time.sleep(delay)
AfterWarningNoSleep == "loop"
AfterWarning == "sleep"

\* except ConnectionError
CaughtAny(kind) == kind # "ok"
Caught(kind) == kind = "ConnectionError"

\* wrapper is entered: attempts_left = max_attempts
Enter(c) ==
    /\ pc[c] = "ready"
    /\ attempts_left' = [attempts_left EXCEPT ![c] = InitialAttempts]
    /\ pc' = [pc EXCEPT ![c] = "loop"]
    /\ UNCHANGED <<pipeVars, cfgVars>>
    /\ UNCHANGED <<max_attempts, delay, calls, script, e, events, outcome>>

\* while attempts_left > 0: ... ; when the loop is left the wrapper ends
\* without a return statement, so the call returns None.
LoopTest(c) ==
    /\ pc[c] = "loop"
    /\ IF LoopGuard(c)
       THEN /\ pc' = [pc EXCEPT ![c] = "call"]
            /\ UNCHANGED outcome
       ELSE /\ pc' = [pc EXCEPT ![c] = "returned"]
            /\ outcome' = [outcome EXCEPT ![c] = [kind |-> "return", val |-> None]]
    /\ UNCHANGED <<pipeVars, cfgVars>>
    /\ UNCHANGED <<max_attempts, delay, calls, script, attempts_left, e, events>>

\* try: return func(*args, **kwargs) / except ConnectionError as e
Invoke(c) ==
    /\ pc[c] = "call"
    /\ LET i == invocations(c) + 1
           kind == FuncOutcome(c, i)
       IN /\ events' = Log(c, [ev |-> "invoke", n |-> i])
          /\ IF kind = "ok"
             THEN /\ pc' = [pc EXCEPT ![c] = "returned"]
                  /\ outcome' = [outcome EXCEPT ![c] =
                        [kind |-> "return", val |-> [kind |-> "value", id |-> i]]]
                  /\ UNCHANGED e
             ELSE IF Caught(kind)
             THEN /\ pc' = [pc EXCEPT ![c] = "except"]
                  /\ e' = [e EXCEPT ![c] = [kind |-> kind, id |-> i]]
                  /\ UNCHANGED outcome
             ELSE /\ pc' = [pc EXCEPT ![c] = "raised"]
                  /\ outcome' = [outcome EXCEPT ![c] =
                        [kind |-> "raise", exc |-> [kind |-> kind, id |-> i]]]
                  /\ UNCHANGED e
    /\ UNCHANGED <<pipeVars, cfgVars>>
    /\ UNCHANGED <<max_attempts, delay, calls, script, attempts_left>>

\* attempts_left -= 1, then logging.warning(...) or logging.error(...)
Handler(c) ==
    /\ pc[c] = "except"
    /\ attempts_left' = Decrement(c)
    /\ IF RetryAgain(attempts_left'[c])
       THEN /\ events' = Log(c, [ev |-> "warning", left |-> attempts_left'[c],
                                 err |-> e[c], secs |-> delay])
            /\ pc' = [pc EXCEPT ![c] = AfterWarning]
       ELSE /\ events' = Log(c, [ev |-> "error", attempts |-> max_attempts,
                                 err |-> e[c]])
            /\ pc' = [pc EXCEPT ![c] = "reraise"]
    /\ UNCHANGED <<pipeVars, cfgVars>>
    /\ UNCHANGED <<max_attempts, delay, calls, script, e, outcome>>

\* time.sleep(delay), then back to the loop test
Sleep(c) ==
    /\ pc[c] = "sleep"
    /\ events' = Log(c, [ev |-> "sleep", secs |-> delay])
    /\ pc' = [pc EXCEPT ![c] = "loop"]
    /\ UNCHANGED <<pipeVars, cfgVars>>
    /\ UNCHANGED <<max_attempts, delay, calls, script, attempts_left, e, outcome>>

\* raise
Reraise(c) ==
    /\ pc[c] = "reraise"
    /\ outcome' = [outcome EXCEPT ![c] = [kind |-> "raise", exc |-> Reraised(c)]]
    /\ pc' = [pc EXCEPT ![c] = "raised"]
    /\ UNCHANGED <<pipeVars, cfgVars>>
    /\ UNCHANGED <<max_attempts, delay, calls, script, attempts_left, e, events>>

\* Two calls of the one wrapped callable.
CallIds == {1, 2}

RetryIdle ==
    /\ max_attempts = 1
    /\ delay = 0
    /\ calls = {}
    /\ script = <<>>
    /\ pc = <<>>
    /\ attempts_left = <<>>
    /\ e = <<>>
    /\ events = <<>>
    /\ outcome = <<>>

RetryStart(ids, scripts) ==
    /\ max_attempts \in AttemptValues
    /\ delay \in DelayValues
    /\ calls = ids
    /\ script \in [ids -> scripts]
    /\ pc = [c \in ids |-> "ready"]
    /\ attempts_left = [c \in ids |-> None]
    /\ e = [c \in ids |-> None]
    /\ events = [c \in ids |-> <<>>]
    /\ outcome = [c \in ids |-> None]

PipeIdle ==
    /\ pipes = {}
    /\ chain = <<>>
    /\ take = <<>>
    /\ gen = <<>>
    /\ ctl = <<>>
    /\ sig = <<>>
    /\ out = <<>>
    /\ received = <<>>
    /\ pulls = <<>>
    /\ realized = <<>>
    /\ dropped = <<>>
    /\ ended = <<>>
    /\ failure = <<>>

\* class ImmutableConfig is defined: _instances = {}, no instance yet
ClassDefined ==
    /\ instances = <<>>
    /\ attrs = <<>>
    /\ building = None
    /\ made = <<>>
    /\ sets = <<>>

NextRetry ==
    \/ \E c \in calls : Enter(c)
    \/ \E c \in calls : LoopTest(c)
    \/ \E c \in calls : Invoke(c)
    \/ \E c \in calls : Handler(c)
    \/ \E c \in calls : Sleep(c)
    \/ \E c \in calls : Reraise(c)

\* One call of the wrapped callable, over every operation script.
InitRetry == RetryStart({1}, Scripts) /\ PipeIdle /\ ClassDefined
SpecRetry == InitRetry /\ [][NextRetry]_vars

\* Calls of the same wrapped callable, interleaved in every way (one after
\* the other included).
InitCalls == RetryStart(CallIds, FlakyScripts) /\ PipeIdle /\ ClassDefined
SpecCalls == InitCalls /\ [][NextRetry]_vars

\* ================================================================= pipeline

\* str: a sequence of characters.
Digit(d) == <<"0", "1", "2", "3", "4", "5", "6", "7", "8", "9">>[d + 1]

\* str(i) of an i >= 0
RECURSIVE Decimal(_)
Decimal(n) ==
    IF n < 10 THEN <<Digit(n)>> ELSE Decimal(n \div 10) \o <<Digit(n % 10)>>

LoglineWord == <<"l", "o", "g", "l", "i", "n", "e">>
StatusEquals == <<"s", "t", "a", "t", "u", "s", "=">>
OkWord == <<"O", "K">>
ErrorWord == <<"E", "R", "R", "O", "R">>

\* f"logline {i} - status=OK"
FormatLine(i) ==
    LoglineWord \o <<" ">> \o Decimal(i) \o <<" ", "-", " ">> \o StatusEquals \o OkWord

\* needle in line
Contains(needle, line) ==
    \E k \in 0..(Len(line) - Len(needle)) :
        SubSeq(line, k + 1, k + Len(needle)) = needle

\* f"status={status}" in line
StatusMatches(status, line) == Contains(StatusEquals \o status, line)

\* The needles and statuses the stages are built with: "logline" and "OK"
\* (the demo's), and some that reject records.
Needles == {LoglineWord, <<"1">>, <<"2">>, ErrorWord}
Statuses == {OkWord, ErrorWord}

\* Lines an upstream other than read_large_file hands to a stage.
OtherLines ==
    {FormatLine(0),
     LoglineWord \o <<" ", "1", " ", "-", " ">> \o StatusEquals \o ErrorWord,
     <<"x">>}

RECURSIVE SeqsUpTo(_, _)
SeqsUpTo(S, n) ==
    IF n = 0 THEN {<<>>}
    ELSE LET shorter == SeqsUpTo(S, n - 1)
         IN shorter \cup {Append(q, x) : q \in shorter, x \in S}

\* The first generator of a chain: read_large_file(num_lines), or an iterator
\* over given lines (the lines: Iterable[str] of a stage).
Sources ==
    {[kind |-> "read_large_file", num_lines |-> n] : n \in 0..MaxNumLines}
    \cup {[kind |-> "iter", items |-> q] : q \in SeqsUpTo(OtherLines, MaxLines)}

SearchStages == {[kind |-> "search_logs", needle |-> n] : n \in Needles}
FilterStages == {[kind |-> "filter_logs", status |-> st] : st \in Statuses}

\* source; search_logs(source, needle); filter_logs(source, status);
\* filter_logs(search_logs(source, needle), status), the demo's chain;
\* search_logs(filter_logs(source, status), needle).
Chains ==
    {<<src>> : src \in Sources}
    \cup {<<src, a>> : src \in Sources, a \in SearchStages \cup FilterStages}
    \cup {<<src, a, b>> : src \in Sources, a \in SearchStages, b \in FilterStages}
    \cup {<<src, b, a>> : src \in Sources, a \in SearchStages, b \in FilterStages}

Consumer(p) == Len(chain[p]) + 1

Idle == [t |-> "idle"]
NextCall == [t |-> "next"]
StopIteration == [t |-> "StopIteration"]
Yield(line) == [t |-> "yield", line |-> line]

NewFrame == [state |-> "created", i |-> 0, line |-> <<>>]

\* the test of a stage: f"status={status}" in line, needle in line
PassesAlways(stage, line) == TRUE
Passes(stage, line) ==
    IF stage.kind = "filter_logs"
    THEN StatusMatches(stage.status, line)
    ELSE Contains(stage.needle, line)

\* what read_large_file or the given iterable holds at 0-based position i
SourceLen(src) ==
    IF src.kind = "read_large_file" THEN src.num_lines ELSE Len(src.items)

SourceLine(src, i) ==
    IF src.kind = "read_large_file" THEN FormatLine(i) ELSE src.items[i + 1]

\* for i in range(num_lines): the next index after a yield at i
NextIndexStuck(i) == i
NextIndex(i) == i + 1

\* the records one resumption of the source produces: the one it yields
ProducedAhead(src, i) ==
    IF i + 1 < SourceLen(src)
    THEN <<SourceLine(src, i), SourceLine(src, i + 1)>>
    ELSE <<SourceLine(src, i)>>
Produced(src, i) == <<SourceLine(src, i)>>

\* An element of lines that is not a str, and the place where iterating
\* lines raises instead of giving an element.
NotStr == <<"(not a str)">>
RaiseItem == <<"(raises)">>

Raise(exc) == [t |-> "raise", exc |-> exc]

\* needle in line, f"status={status}" in line: TypeError when line is not a str
TestRaisesNever(stage, line) == FALSE
TestRaises(stage, line) == line = NotStr

\* next(lines) raises at the place where the iterable raises
SourceRaises(src, fr) ==
    /\ src.kind = "iter"
    /\ fr.state # "done"
    /\ fr.i < Len(src.items)
    /\ src.items[fr.i + 1] = RaiseItem

\* the frame of a generator whose body has ended: it is not started again
FinishedRewound(fr) == [fr EXCEPT !.state = "created", !.i = 0]
Finished(fr) == [fr EXCEPT !.state = "done"]

\* read_large_file is suspended at its yield: i is a local of the frame of
\* this generator object, no other generator object sees it
SuspendShared(p, i) ==
    [q \in pipes |-> [gen[q] EXCEPT ![1] =
        [state |-> "suspended", i |-> NextIndex(i), line |-> <<>>]]]
Suspend(p, i) ==
    [gen EXCEPT ![p][1] = [state |-> "suspended", i |-> NextIndex(i), line |-> <<>>]]

\* the consumer: for i, line in enumerate(logs) calls next(logs)
ConsumerPull(p) ==
    /\ ended[p] = "no"
    /\ ctl[p] = Consumer(p)
    /\ sig[p] = Idle
    /\ pulls' = [pulls EXCEPT ![p] = @ + 1]
    /\ ctl' = [ctl EXCEPT ![p] = Len(chain[p])]
    /\ sig' = [sig EXCEPT ![p] = NextCall]
    /\ UNCHANGED <<retryVars, cfgVars, failure>>
    /\ UNCHANGED <<pipes, chain, take, gen, out, received, realized, dropped, ended>>

\* read_large_file is resumed: the next i of range(num_lines) and the yield,
\* or the end of the loop (a generator that has ended stays ended).
SourceNext(p) ==
    /\ ctl[p] = 1
    /\ sig[p] = NextCall
    /\ ~SourceRaises(chain[p][1], gen[p][1])
    /\ LET src == chain[p][1]
           fr == gen[p][1]
       IN IF fr.state # "done" /\ fr.i < SourceLen(src)
          THEN /\ gen' = Suspend(p, fr.i)
               /\ realized' = [realized EXCEPT ![p] = @ \o Produced(src, fr.i)]
               /\ sig' = [sig EXCEPT ![p] = Yield(SourceLine(src, fr.i))]
          ELSE /\ gen' = [gen EXCEPT ![p][1] = Finished(fr)]
               /\ sig' = [sig EXCEPT ![p] = StopIteration]
               /\ UNCHANGED realized
    /\ ctl' = [ctl EXCEPT ![p] = 2]
    /\ UNCHANGED <<retryVars, cfgVars, failure>>
    /\ UNCHANGED <<pipes, chain, take, out, received, pulls, dropped, ended>>

\* a stage is resumed: for line in lines calls next(lines)
StageNext(p, s) ==
    /\ s > 1
    /\ ctl[p] = s
    /\ sig[p] = NextCall
    /\ IF gen[p][s].state = "done"
       THEN /\ ctl' = [ctl EXCEPT ![p] = s + 1]
            /\ sig' = [sig EXCEPT ![p] = StopIteration]
            /\ UNCHANGED gen
       ELSE /\ ctl' = [ctl EXCEPT ![p] = s - 1]
            /\ gen' = [gen EXCEPT ![p][s].state = "running"]
            /\ UNCHANGED sig
    /\ UNCHANGED <<retryVars, cfgVars, failure>>
    /\ UNCHANGED <<pipes, chain, take, out, received, pulls, realized, dropped, ended>>

\* next(lines) gave a line: the test, then yield line or the next iteration
StageLine(p, s) ==
    /\ s > 1
    /\ ctl[p] = s
    /\ sig[p].t = "yield"
    /\ ~TestRaises(chain[p][s], sig[p].line)
    /\ IF Passes(chain[p][s], sig[p].line)
       THEN /\ gen' = [gen EXCEPT ![p][s] =
                    [state |-> "suspended", i |-> 0, line |-> sig[p].line]]
            /\ ctl' = [ctl EXCEPT ![p] = s + 1]
            /\ sig' = [sig EXCEPT ![p] = Yield(sig[p].line)]
            /\ UNCHANGED dropped
       ELSE /\ gen' = [gen EXCEPT ![p][s].line = sig[p].line]
            /\ ctl' = [ctl EXCEPT ![p] = s - 1]
            /\ sig' = [sig EXCEPT ![p] = NextCall]
            /\ dropped' = [dropped EXCEPT ![p] = @ + 1]
    /\ UNCHANGED <<retryVars, cfgVars, failure>>
    /\ UNCHANGED <<pipes, chain, take, out, received, pulls, realized, ended>>

\* next(lines) raised StopIteration: the for loop ends, the generator returns
StageEnd(p, s) ==
    /\ s > 1
    /\ ctl[p] = s
    /\ sig[p] = StopIteration
    /\ gen' = [gen EXCEPT ![p][s].state = "done"]
    /\ ctl' = [ctl EXCEPT ![p] = s + 1]
    /\ UNCHANGED <<retryVars, cfgVars, failure>>
    /\ UNCHANGED <<pipes, chain, take, sig, out, received, pulls, realized, dropped, ended>>

\* the consumer gets (i, line): if i >= 5: break, else print(line)
ConsumerLine(p) ==
    /\ ctl[p] = Consumer(p)
    /\ sig[p].t = "yield"
    /\ received' = [received EXCEPT ![p] = Append(@, sig[p].line)]
    /\ IF Len(received[p]) >= take[p]
       THEN /\ ended' = [ended EXCEPT ![p] = "break"]
            /\ UNCHANGED out
       ELSE /\ out' = [out EXCEPT ![p] = Append(@, sig[p].line)]
            /\ UNCHANGED ended
    /\ sig' = [sig EXCEPT ![p] = Idle]
    /\ UNCHANGED <<retryVars, cfgVars, failure>>
    /\ UNCHANGED <<pipes, chain, take, gen, ctl, pulls, realized, dropped>>

\* the consumer's for loop ends on StopIteration
ConsumerEnd(p) ==
    /\ ctl[p] = Consumer(p)
    /\ sig[p] = StopIteration
    /\ ended' = [ended EXCEPT ![p] = "exhausted"]
    /\ sig' = [sig EXCEPT ![p] = Idle]
    /\ UNCHANGED <<retryVars, cfgVars, failure>>
    /\ UNCHANGED <<pipes, chain, take, gen, ctl, out, received, pulls, realized, dropped>>

PipeStartTaking(ids, chains, takes) ==
    /\ pipes = ids
    /\ chain \in [ids -> chains]
    /\ take \in [ids -> takes]
    /\ gen = [p \in ids |-> [s \in 1..Len(chain[p]) |-> NewFrame]]
    /\ ctl = [p \in ids |-> Consumer(p)]
    /\ sig = [p \in ids |-> Idle]
    /\ out = [p \in ids |-> <<>>]
    /\ received = [p \in ids |-> <<>>]
    /\ pulls = [p \in ids |-> 0]
    /\ realized = [p \in ids |-> <<>>]
    /\ dropped = [p \in ids |-> 0]
    /\ ended = [p \in ids |-> "no"]
    /\ failure = [p \in ids |-> None]

PipeStart(ids, chains) == PipeStartTaking(ids, chains, 0..MaxTake)

NextPipe ==
    \/ \E p \in pipes : ConsumerPull(p)
    \/ \E p \in pipes : SourceNext(p)
    \/ \E p \in pipes : \E s \in 2..Len(chain[p]) : StageNext(p, s)
    \/ \E p \in pipes : \E s \in 2..Len(chain[p]) : StageLine(p, s)
    \/ \E p \in pipes : \E s \in 2..Len(chain[p]) : StageEnd(p, s)
    \/ \E p \in pipes : ConsumerLine(p)
    \/ \E p \in pipes : ConsumerEnd(p)

\* a caller that calls next() again on a sequence that has signalled its end
PullAfterEnd(p) ==
    /\ ended[p] \in {"exhausted", "raised"}
    /\ ctl[p] = Consumer(p)
    /\ sig[p] = Idle
    /\ pulls[p] < Len(received[p]) + 1 + MaxAgain
    /\ pulls' = [pulls EXCEPT ![p] = @ + 1]
    /\ ctl' = [ctl EXCEPT ![p] = Len(chain[p])]
    /\ sig' = [sig EXCEPT ![p] = NextCall]
    /\ UNCHANGED <<retryVars, cfgVars, failure>>
    /\ UNCHANGED <<pipes, chain, take, gen, out, received, realized, dropped, ended>>

\* iterating lines raises: the exception reaches the stage that called next
SourceRaise(p) ==
    /\ ctl[p] = 1
    /\ sig[p] = NextCall
    /\ SourceRaises(chain[p][1], gen[p][1])
    /\ gen' = [gen EXCEPT ![p][1] = Finished(gen[p][1])]
    /\ ctl' = [ctl EXCEPT ![p] = 2]
    /\ sig' = [sig EXCEPT ![p] = Raise([kind |-> "UpstreamError", at |-> gen[p][1].i])]
    /\ UNCHANGED <<retryVars, cfgVars>>
    /\ UNCHANGED <<pipes, chain, take, out, received, pulls, realized, dropped, ended,
                   failure>>

\* the test of a stage raises TypeError: the generator ends with it
StageTestRaise(p, s) ==
    /\ s > 1
    /\ ctl[p] = s
    /\ sig[p].t = "yield"
    /\ TestRaises(chain[p][s], sig[p].line)
    /\ gen' = [gen EXCEPT ![p][s] = Finished([gen[p][s] EXCEPT !.line = sig[p].line])]
    /\ ctl' = [ctl EXCEPT ![p] = s + 1]
    /\ sig' = [sig EXCEPT ![p] = Raise([kind |-> "TypeError", at |-> Len(realized[p]) - 1])]
    /\ UNCHANGED <<retryVars, cfgVars>>
    /\ UNCHANGED <<pipes, chain, take, out, received, pulls, realized, dropped, ended,
                   failure>>

\* next(lines) raised: no handler in the stage, the generator ends with it
StagePropagate(p, s) ==
    /\ s > 1
    /\ ctl[p] = s
    /\ sig[p].t = "raise"
    /\ gen' = [gen EXCEPT ![p][s] = Finished(gen[p][s])]
    /\ ctl' = [ctl EXCEPT ![p] = s + 1]
    /\ UNCHANGED <<retryVars, cfgVars>>
    /\ UNCHANGED <<pipes, chain, take, sig, out, received, pulls, realized, dropped,
                   ended, failure>>

\* the exception leaves the consumer's for loop
ConsumerRaise(p) ==
    /\ ctl[p] = Consumer(p)
    /\ sig[p].t = "raise"
    /\ failure' = [failure EXCEPT ![p] = sig[p].exc]
    /\ ended' = [ended EXCEPT ![p] = "raised"]
    /\ sig' = [sig EXCEPT ![p] = Idle]
    /\ UNCHANGED <<retryVars, cfgVars>>
    /\ UNCHANGED <<pipes, chain, take, gen, ctl, out, received, pulls, realized, dropped>>

\* One pipeline and its consumer, over every chain.
InitPipe == RetryIdle /\ PipeStart({1}, Chains) /\ ClassDefined
SpecPipe == InitPipe /\ [][NextPipe]_vars

\* The same, with a caller that keeps pulling after the end.
NextRepull ==
    \/ NextPipe
    \/ \E p \in pipes : PullAfterEnd(p)

SpecRepull == InitPipe /\ [][NextRepull]_vars

\* Two calls of read_large_file, each with its own chain and its own
\* consumer, the steps of the two interleaved in every order.
MaxTwoLines == 3
TwoChains ==
    LET srcs == {[kind |-> "read_large_file", num_lines |-> n] : n \in 0..MaxTwoLines}
    IN {<<src>> : src \in srcs}
       \cup {<<src, [kind |-> "search_logs", needle |-> <<"1">>]>> : src \in srcs}
       \cup {<<src, [kind |-> "search_logs", needle |-> LoglineWord],
                [kind |-> "filter_logs", status |-> OkWord]>> : src \in srcs}

InitTwo == RetryIdle /\ PipeStartTaking({1, 2}, TwoChains, {1, MaxTake}) /\ ClassDefined
SpecTwo == InitTwo /\ [][NextPipe]_vars

\* One more generator chain and its consumer.
Extended(f, id, v) == [q \in DOMAIN f \cup {id} |-> IF q = id THEN v ELSE f[q]]

AddPipe(id, stages) ==
    /\ pipes' = pipes \cup {id}
    /\ chain' = Extended(chain, id, stages)
    /\ take' = Extended(take, id, MaxTake)
    /\ gen' = Extended(gen, id, [s \in 1..Len(stages) |-> NewFrame])
    /\ ctl' = Extended(ctl, id, Len(stages) + 1)
    /\ sig' = Extended(sig, id, Idle)
    /\ out' = Extended(out, id, <<>>)
    /\ received' = Extended(received, id, <<>>)
    /\ pulls' = Extended(pulls, id, 0)
    /\ realized' = Extended(realized, id, <<>>)
    /\ dropped' = Extended(dropped, id, 0)
    /\ ended' = Extended(ended, id, "no")
    /\ failure' = Extended(failure, id, None)
    /\ UNCHANGED <<retryVars, cfgVars>>

\* The records the first stage gave are the lines of a second stage:
\* b(a(source)) built one stage after the other.
StageOverResult(b) ==
    /\ pipes = {1}
    /\ ended[1] = "exhausted"
    /\ chain[1][2].kind # b.kind
    /\ AddPipe(2, <<[kind |-> "iter", items |-> received[1]], b>>)

\* The same two stages composed over the source before any record is pulled.
StageOverStage ==
    /\ pipes = {1, 2}
    /\ ended[2] = "exhausted"
    /\ AddPipe(3, chain[1] \o <<chain[2][2]>>)

\* Sources short enough for the consumer to reach their end.
GroupChains ==
    LET srcs == {[kind |-> "read_large_file", num_lines |-> n] : n \in 0..MaxTake}
                \cup {[kind |-> "iter", items |-> q] : q \in SeqsUpTo(OtherLines, MaxLines)}
    IN {<<src, a>> : src \in srcs, a \in SearchStages \cup FilterStages}

NextGroup ==
    \/ NextPipe
    \/ \E b \in SearchStages \cup FilterStages : StageOverResult(b)
    \/ StageOverStage

InitGroup == RetryIdle /\ PipeStartTaking({1}, GroupChains, {MaxTake}) /\ ClassDefined
SpecGroup == InitGroup /\ [][NextGroup]_vars

\* Stages over lines that hold elements that are not str, or whose iteration
\* raises, with a caller that keeps pulling after the failure.
ErrorLine == LoglineWord \o <<" ", "1", " ", "-", " ">> \o StatusEquals \o ErrorWord
FailingLines == {FormatLine(0), ErrorLine, NotStr, RaiseItem}

FailingChains ==
    LET srcs == {[kind |-> "iter", items |-> q] : q \in SeqsUpTo(FailingLines, MaxLines)}
        search == {[kind |-> "search_logs", needle |-> n] : n \in {LoglineWord, <<"1">>}}
    IN {<<src, a>> : src \in srcs, a \in search \cup FilterStages}
       \cup {<<src, a, b>> : src \in srcs, a \in search, b \in FilterStages}
       \cup {<<src, b, a>> : src \in srcs, a \in search, b \in FilterStages}

NextFail ==
    \/ NextRepull
    \/ \E p \in pipes : SourceRaise(p)
    \/ \E p \in pipes : \E s \in 2..Len(chain[p]) : StageTestRaise(p, s)
    \/ \E p \in pipes : \E s \in 2..Len(chain[p]) : StagePropagate(p, s)
    \/ \E p \in pipes : ConsumerRaise(p)

InitFail == RetryIdle /\ PipeStart({1}, FailingChains) /\ ClassDefined
SpecFail == InitFail /\ [][NextFail]_vars

\* ========================================================== ImmutableConfig

MaxConstructs == 3
MaxSets == 2

Keys == {"API_URL", "DB_URL"}
ConfigValues == {"https://example.org", "ignored-value"}

\* Attribute values: "False" and "True" stand for the two bool objects, any
\* other string for a non-empty str; Unset for a name missing from the
\* instance.
Unset == "(unset)"
Names == {"key", "value", "_locked", "_instances"}
Assigned == {"False", "changed"}

\* getattr(self, '_locked', False), taken as the condition of an if: the
\* attribute of the instance, else the class attribute _locked = False
LockedNever(a) == FALSE
Locked(a) == a["_locked"] \notin {Unset, "False"}

\* __setattr__: the names it lets through when the instance is locked
Internal == {"_locked", "_instances"}

\* __setattr__(self, name, value) raises AttributeError
Refuses(a, name) == Locked(a) /\ name \notin Internal

\* __setattr__(self, name, value): the attributes afterwards
SetAttr(a, name, v) == IF Refuses(a, name) THEN a ELSE [a EXCEPT ![name] = v]

\* __new__(cls, key, value): the instance of the key, or a new one with
\* _locked = False, entered in cls._instances
ConfigNew(k, v) ==
    /\ building = None
    /\ Len(made) < MaxConstructs
    /\ IF k \in DOMAIN instances
       THEN /\ building' = [key |-> k, value |-> v, obj |-> instances[k]]
            /\ UNCHANGED <<instances, attrs>>
       ELSE LET obj == Len(attrs) + 1
            IN /\ attrs' = Append(attrs, SetAttr([n \in Names |-> Unset], "_locked", "False"))
               /\ instances' = Extended(instances, k, obj)
               /\ building' = [key |-> k, value |-> v, obj |-> obj]
    /\ UNCHANGED <<retryVars, pipeVars, made, sets>>

\* __init__(self, key, value) on what __new__ returned: skipped when the
\* instance is locked, else key, value and _locked = True are assigned
ConfigInit ==
    /\ building # None
    /\ LET self == building.obj
       IN attrs' = [attrs EXCEPT ![self] =
                      IF Locked(attrs[self])
                      THEN @
                      ELSE SetAttr(SetAttr(SetAttr(@, "key", building.key),
                                           "value", building.value),
                                   "_locked", "True")]
    /\ made' = Append(made, building)
    /\ building' = None
    /\ UNCHANGED <<retryVars, pipeVars, instances, sets>>

\* obj.name = v, by a holder of an instance some construction returned
ConfigSetAttr(obj, name, v) ==
    /\ building = None
    /\ Len(sets) < MaxSets
    /\ \E i \in 1..Len(made) : made[i].obj = obj
    /\ attrs' = [attrs EXCEPT ![obj] = SetAttr(@, name, v)]
    /\ sets' = Append(sets, [obj |-> obj, name |-> name, raised |-> Refuses(attrs[obj], name)])
    /\ UNCHANGED <<retryVars, pipeVars, instances, building, made>>

\* Constructions only.
NextConfigNew ==
    \/ \E k \in Keys : \E v \in ConfigValues : ConfigNew(k, v)
    \/ ConfigInit

InitConfig == RetryIdle /\ PipeIdle /\ ClassDefined
SpecConfigNew == InitConfig /\ [][NextConfigNew]_vars

\* Constructions and assignments to the instances.
NextConfig ==
    \/ NextConfigNew
    \/ \E obj \in 1..Len(attrs) : \E name \in Names : \E v \in Assigned :
          ConfigSetAttr(obj, name, v)

SpecConfig == InitConfig /\ [][NextConfig]_vars

\* ------------------------------------------------------- claims on retry

Terminal(c) == pc[c] \in {"returned", "raised"}

\* func raises ConnectionError at each of its first k invocations
TransientPrefix(c, k) == \A i \in 1..k : script[c][i] = "ConnectionError"

LastEvent(c) == events[c][Len(events[c])]

\* C1: for max_attempts >= 1 and an operation that raises ConnectionError at
\* exactly its first k invocations and then succeeds, k < max_attempts, the
\* call never makes more than k+1 invocations, more than k warnings or any
\* error notice, and it ends returning the value of invocation k+1 after
\* exactly k+1 invocations and exactly k warnings.
C1_SucceedsAfterKFailures ==
    \A c \in calls : \A k \in 0..(MaxAttempts - 1) :
        (/\ max_attempts >= 1
         /\ k < max_attempts
         /\ TransientPrefix(c, k)
         /\ script[c][k + 1] = "ok")
        => /\ invocations(c) <= k + 1
           /\ Len(Warnings(c)) <= k
           /\ Len(Errors(c)) = 0
           /\ Terminal(c) =>
                /\ outcome[c] = [kind |-> "return", val |-> [kind |-> "value", id |-> k + 1]]
                /\ invocations(c) = k + 1
                /\ Len(Warnings(c)) = k

\* Scenario B: two failures, max_attempts = 3, the third invocation succeeds.
C1_Witness ==
    /\ max_attempts = 3
    /\ TransientPrefix(1, 2)
    /\ script[1][3] = "ok"
    /\ pc[1] = "returned"
    /\ outcome[1] = [kind |-> "return", val |-> [kind |-> "value", id |-> 3]]
    /\ Len(Warnings(1)) = 2

\* C2: for max_attempts >= 1 and an operation whose first max_attempts (or
\* more) invocations all raise ConnectionError, the call never makes more
\* than max_attempts invocations, and it ends raising a ConnectionError after
\* exactly max_attempts invocations, max_attempts - 1 warnings and one error
\* notice; with max_attempts = 1 there is one invocation, no warning and no
\* pause.
C2_RaisesAfterExhaustion ==
    \A c \in calls :
        (max_attempts >= 1 /\ TransientPrefix(c, max_attempts))
        => /\ invocations(c) <= max_attempts
           /\ Len(Warnings(c)) <= max_attempts - 1
           /\ Len(Errors(c)) <= 1
           /\ Terminal(c) =>
                /\ outcome[c].kind = "raise"
                /\ outcome[c].exc.kind = "ConnectionError"
                /\ invocations(c) = max_attempts
                /\ Len(Warnings(c)) = max_attempts - 1
                /\ Len(Errors(c)) = 1
           /\ max_attempts = 1 =>
                /\ Len(Warnings(c)) = 0
                /\ Len(Sleeps(c)) = 0

\* Scenario C: three failures under max_attempts = 3.
C2_Witness ==
    /\ max_attempts = 3
    /\ TransientPrefix(1, 3)
    /\ pc[1] = "raised"
    /\ invocations(1) = 3
    /\ Len(Warnings(1)) = 2
    /\ Len(Errors(1)) = 1

\* C3: when the operation raises a non-ConnectionError at invocation k+1,
\* after k ConnectionErrors (k = 0: at the first invocation), the call ends
\* raising that very exception: k+1 invocations, the k warnings and k pauses
\* of the earlier failures, no error notice, and nothing happens after the
\* failing invocation.
C3_NonTransientPropagates ==
    \A c \in calls : \A k \in 0..MaxAttempts :
        (/\ k < max_attempts
         /\ TransientPrefix(c, k)
         /\ script[c][k + 1] = "Exception")
        => /\ invocations(c) <= k + 1
           /\ Len(Warnings(c)) <= k
           /\ Len(Sleeps(c)) <= k
           /\ Len(Errors(c)) = 0
           /\ invocations(c) = k + 1 =>
                /\ pc[c] = "raised"
                /\ outcome[c] = [kind |-> "raise", exc |-> [kind |-> "Exception", id |-> k + 1]]
                /\ LastEvent(c) = [ev |-> "invoke", n |-> k + 1]
                /\ Len(Warnings(c)) = k
                /\ Len(Sleeps(c)) = k

\* A non-transient failure at the third invocation, after two retries.
C3_Witness ==
    /\ max_attempts = 3
    /\ TransientPrefix(1, 2)
    /\ script[1][3] = "Exception"
    /\ pc[1] = "raised"
    /\ outcome[1] = [kind |-> "raise", exc |-> [kind |-> "Exception", id |-> 3]]
    /\ Len(Sleeps(1)) = 2

\* C4: in every state of a call, whatever the operation does, the number of
\* invocations made so far is at most max_attempts (for the values below 1
\* that retry() also takes: no invocation at all).
C4_AtMostMaxAttempts ==
    \A c \in calls :
        invocations(c) <= (IF max_attempts > 0 THEN max_attempts ELSE 0)

C4_Witness ==
    /\ max_attempts = MaxAttempts
    /\ Terminal(1)
    /\ invocations(1) = MaxAttempts

\* C8: the attempt counter belongs to one call: once a call is entered its
\* attempts_left is max_attempts less the ConnectionErrors that call itself
\* handled, whatever the other calls did (so it starts at max_attempts), and
\* a call whose operation keeps failing makes max_attempts invocations
\* before it gives up, also when another call has given up before.
C8_CounterPerCall ==
    \A c \in calls :
        /\ pc[c] # "ready" =>
              attempts_left[c] = max_attempts - (Len(Warnings(c)) + Len(Errors(c)))
        /\ (max_attempts >= 1 /\ TransientPrefix(c, max_attempts) /\ Terminal(c))
              => invocations(c) = max_attempts

\* Both calls used up all max_attempts = 3 attempts.
C8_Witness ==
    /\ max_attempts = 3
    /\ calls = {1, 2}
    /\ \A c \in calls :
          /\ pc[c] = "raised"
          /\ invocations(c) = 3
          /\ Len(Errors(c)) = 1

\* C9: for every max_attempts retry() takes, a call that has ended has
\* invoked the operation at least once, and it ended returning a value the
\* operation returned or raising an exception the operation raised.
C9_EndsWithOperationResult ==
    \A c \in calls :
        Terminal(c) =>
              /\ invocations(c) >= 1
              /\ \E i \in 1..invocations(c) :
                    \/ /\ script[c][i] = "ok"
                       /\ outcome[c] = [kind |-> "return", val |-> [kind |-> "value", id |-> i]]
                    \/ /\ script[c][i] # "ok"
                       /\ outcome[c] = [kind |-> "raise", exc |-> [kind |-> script[c][i], id |-> i]]

\* C10: when the retries are used up, the exception the caller gets is the
\* one the last, max_attempts-th, invocation raised.
C10_LastFailureSurfaces ==
    \A c \in calls :
        (max_attempts >= 1 /\ TransientPrefix(c, max_attempts) /\ Terminal(c))
        => /\ outcome[c] = [kind |-> "raise",
                            exc |-> [kind |-> "ConnectionError", id |-> max_attempts]]
           /\ LastEvent(c).ev = "error"
           /\ LastEvent(c).err = outcome[c].exc

C10_Witness ==
    /\ max_attempts = 2
    /\ TransientPrefix(1, 2)
    /\ pc[1] = "raised"
    /\ outcome[1].exc = [kind |-> "ConnectionError", id |-> 2]

\* C16: within one call the events are ordered.  An invocation is the first
\* event or follows a pause; a ConnectionError that leaves attempts is
\* followed by one warning, the warning by one pause of delay seconds, the
\* pause by the next invocation; nothing follows a success, a failure that
\* is not a ConnectionError, or the error notice of the last failure.  So the
\* pauses are as many as the warnings, but for the pause still to be taken.
C16_EventOrder ==
    \A c \in calls :
        LET E == events[c]
            n == Len(E)
            Kind(j) == script[c][E[j].n]
        IN /\ \A j \in 1..n :
                /\ E[j].ev = "invoke" =>
                      /\ E[j].n = Len(SelectSeq(SubSeq(E, 1, j), LAMBDA x : x.ev = "invoke"))
                      /\ IF j = 1 THEN TRUE ELSE E[j - 1].ev = "sleep"
                      /\ Kind(j) # "ConnectionError" => j = n
                      /\ (Kind(j) = "ConnectionError" /\ j < n) =>
                            E[j + 1].ev = (IF E[j].n < max_attempts THEN "warning" ELSE "error")
                /\ E[j].ev = "warning" =>
                      /\ j > 1
                      /\ E[j - 1].ev = "invoke"
                      /\ Kind(j - 1) = "ConnectionError"
                      /\ E[j - 1].n < max_attempts
                      /\ IF j < n THEN E[j + 1] = [ev |-> "sleep", secs |-> delay]
                                  ELSE pc[c] = "sleep"
                /\ E[j].ev = "sleep" =>
                      /\ j > 1
                      /\ E[j - 1].ev = "warning"
                      /\ E[j].secs = delay
                      /\ IF j < n THEN E[j + 1].ev = "invoke"
                                  ELSE pc[c] \in {"loop", "call"}
                /\ E[j].ev = "error" =>
                      /\ j > 1
                      /\ E[j - 1].ev = "invoke"
                      /\ E[j - 1].n = max_attempts
                      /\ j = n
           /\ Len(Sleeps(c)) = Len(Warnings(c)) - (IF pc[c] = "sleep" THEN 1 ELSE 0)

\* Two retried failures and a success: invoke, warning, pause, twice, then
\* the third invocation.
C16_Witness ==
    /\ max_attempts = 3
    /\ pc[1] = "returned"
    /\ Len(events[1]) = 7
    /\ [j \in 1..7 |-> events[1][j].ev]
          = <<"invoke", "warning", "sleep", "invoke", "warning", "sleep", "invoke">>

\* C17: the i-th warning of a call reports max_attempts - i attempts left,
\* which is at least 1; there is at most one error notice, it reports
\* max_attempts, and it is there exactly when a failure has brought
\* attempts_left down to 0.
C17_ReportedCounts ==
    \A c \in calls :
        /\ \A i \in 1..Len(Warnings(c)) :
              /\ Warnings(c)[i].left = max_attempts - i
              /\ Warnings(c)[i].left >= 1
        /\ \A i \in 1..Len(Errors(c)) : Errors(c)[i].attempts = max_attempts
        /\ Len(Errors(c)) <= 1
        /\ Len(Errors(c)) = 1 <=>
              (pc[c] # "ready" /\ invocations(c) >= 1 /\ attempts_left[c] = 0)

\* Exhaustion under max_attempts = 3: warnings report 2 and 1, the error
\* notice reports 3.
C17_Witness ==
    /\ max_attempts = 3
    /\ pc[1] = "raised"
    /\ Len(Warnings(1)) = 2
    /\ Warnings(1)[1].left = 2
    /\ Warnings(1)[2].left = 1
    /\ Len(Errors(1)) = 1
    /\ Errors(1)[1].attempts = 3

\* ---------------------------------------------------- claims on the pipeline

\* The records of the source of pipeline p, in order.
Items(p) ==
    [k \in 1..SourceLen(chain[p][1]) |-> SourceLine(chain[p][1], k - 1)]

\* The predicate of a stage, as its contract states it.
Matches(stage, line) ==
    CASE stage.kind = "filter_logs" -> Contains(StatusEquals \o stage.status, line)
      [] stage.kind = "search_logs" -> Contains(stage.needle, line)

MatchesAll(p, line) == \A s \in 2..Len(chain[p]) : Matches(chain[p][s], line)

Expected(p) == SelectSeq(Items(p), LAMBDA line : MatchesAll(p, line))

\* How many of the first n records of the source pass every stage.
PassCount(p, n) == Cardinality({k \in 1..n : MatchesAll(p, Items(p)[k])})

\* How many records the source has produced once the j-th passing record is
\* out: its position, or all of them when fewer than j pass.
UpTo(p, j) ==
    IF j = 0 THEN 0
    ELSE IF PassCount(p, Len(Items(p))) < j THEN Len(Items(p))
    ELSE CHOOSE n \in 1..Len(Items(p)) :
            MatchesAll(p, Items(p)[n]) /\ PassCount(p, n) = j

IsPrefix(q, r) == Len(q) <= Len(r) /\ q = SubSeq(r, 1, Len(q))

AtRest(p) == ctl[p] = Consumer(p) /\ sig[p] = Idle

\* filter_logs(search_logs(read_large_file(N), needle), status)
IsComposed(p) ==
    /\ Len(chain[p]) = 3
    /\ chain[p][1].kind = "read_large_file"
    /\ chain[p][2].kind = "search_logs"
    /\ chain[p][3].kind = "filter_logs"

\* The parts of C5 that do not count records: the source has produced a
\* prefix of its records; when the consumer has its j-th output the source
\* has produced exactly the records up to the j-th passing one; at most one
\* produced record is neither rejected nor handed to the consumer; once the
\* consumer has stopped nothing runs.
C5_Lazy(p) ==
    /\ IsPrefix(realized[p], Items(p))
    /\ (AtRest(p) /\ ended[p] # "exhausted" /\ Len(received[p]) >= 1)
          => Len(realized[p]) = UpTo(p, Len(received[p]))
    /\ Len(realized[p]) - dropped[p] - Len(received[p]) \in {0, 1}
    /\ Len(realized[p]) <= UpTo(p, pulls[p])
    /\ ended[p] # "no" => AtRest(p)

\* C5 as stated: the composed pipeline is lazy, and a consumer of only the
\* first 5 results makes the source produce at most 5 + 1 records.
C5_AtMostSixRealized ==
    \A p \in pipes :
        IsComposed(p) =>
            /\ C5_Lazy(p)
            /\ take[p] = 5 => Len(realized[p]) <= 5 + 1

\* C5 amended: the composed pipeline is lazy, and a consumer of only the
\* first 5 results makes the source produce at most the records up to the
\* 6th that passes every stage (all of them when fewer pass); that is at
\* most 5 + 1 records when every record passes, as with the demo's needle
\* "logline" and status "OK".
C5_RealizedUpToSixthMatch ==
    \A p \in pipes :
        IsComposed(p) =>
            /\ C5_Lazy(p)
            /\ Len(realized[p]) <= UpTo(p, take[p] + 1)
            /\ (\A k \in 1..Len(Items(p)) : MatchesAll(p, Items(p)[k]))
                  => Len(realized[p]) <= take[p] + 1

\* The demo: 5 lines printed, the 6th pulled and the loop left, 6 records
\* produced out of 7.
C5_Witness ==
    /\ chain[1] = <<[kind |-> "read_large_file", num_lines |-> 7],
                    [kind |-> "search_logs", needle |-> LoglineWord],
                    [kind |-> "filter_logs", status |-> OkWord]>>
    /\ take[1] = 5
    /\ ended[1] = "break"
    /\ Len(out[1]) = 5
    /\ Len(realized[1]) = 6

\* C6: what a chain of filter stages has handed out is a prefix of the
\* upstream records that pass the predicates, in upstream order, and once
\* the chain is exhausted it is all of them.
C6_FilterIsSubsequence ==
    \A p \in pipes :
        Len(chain[p]) >= 2 =>
            /\ IsPrefix(received[p], Expected(p))
            /\ ended[p] = "exhausted" => received[p] = Expected(p)

\* Scenario A: read_large_file(5) through filter_logs(status "OK").
C6_Witness ==
    /\ chain[1] = <<[kind |-> "read_large_file", num_lines |-> 5],
                    [kind |-> "filter_logs", status |-> OkWord]>>
    /\ ended[1] = "exhausted"
    /\ out[1] = [k \in 1..5 |-> FormatLine(k - 1)]

\* C7: read_large_file(N) hands out the records of indices 0, 1, ... in
\* order, N of them when it signals the end; it has produced no more
\* records than pulls have arrived and at most one more than it has handed
\* to the caller, and between pulls exactly as many as were pulled.
C7_SourceYieldsInOrder ==
    \A p \in pipes :
        (Len(chain[p]) = 1 /\ chain[p][1].kind = "read_large_file") =>
            LET N == chain[p][1].num_lines
            IN /\ received[p] = [k \in 1..Len(received[p]) |-> FormatLine(k - 1)]
               /\ realized[p] = [k \in 1..Len(realized[p]) |-> FormatLine(k - 1)]
               /\ Len(realized[p]) <= N
               /\ ended[p] = "exhausted" => Len(received[p]) = N
               /\ Len(realized[p]) <= pulls[p]
               /\ Len(realized[p]) <= Len(received[p]) + 1
               /\ (AtRest(p) /\ ended[p] # "exhausted")
                     => Len(realized[p]) = pulls[p] /\ Len(received[p]) = pulls[p]

C7_Witness ==
    /\ chain[1] = <<[kind |-> "read_large_file", num_lines |-> 3]>>
    /\ ended[1] = "exhausted"
    /\ pulls[1] = 4
    /\ received[1] = <<FormatLine(0), FormatLine(1), FormatLine(2)>>

\* C18: a sequence is never reset in place.  What the source has produced
\* is a prefix of its records, so positions only go up and no record comes
\* twice (for read_large_file the k-th record produced has index k-1); what
\* the caller was handed is a prefix of the passing records; and once the
\* end was signalled a later pull hands out no record and produces none.
C18_NeverResetInPlace ==
    \A p \in pipes :
        /\ IsPrefix(realized[p], Items(p))
        /\ chain[p][1].kind = "read_large_file" =>
              realized[p] = [k \in 1..Len(realized[p]) |-> FormatLine(k - 1)]
        /\ IsPrefix(received[p], Expected(p))
        /\ ended[p] = "exhausted" =>
              /\ sig[p].t # "yield"
              /\ realized[p] = Items(p)
              /\ received[p] = Expected(p)
              /\ AtRest(p) => \A s \in 1..Len(chain[p]) : gen[p][s].state = "done"

\* read_large_file(2) pulled five times: two records, then the end three
\* times over.
C18_Witness ==
    /\ chain[1] = <<[kind |-> "read_large_file", num_lines |-> 2]>>
    /\ ended[1] = "exhausted"
    /\ AtRest(1)
    /\ pulls[1] = 5
    /\ received[1] = <<FormatLine(0), FormatLine(1)>>

\* The first place of the upstream where the stage fails: an element that is
\* not a str (every element reaches the test of the first stage) or the
\* place where iterating raises; 0 when there is none.
FailAt(p) ==
    LET bad == {k \in 1..Len(Items(p)) : Items(p)[k] \in {NotStr, RaiseItem}}
    IN IF bad = {} THEN 0 ELSE CHOOSE k \in bad : \A j \in bad : k <= j

\* The passing records ahead of that place.
Before(p) ==
    SelectSeq(SubSeq(Items(p), 1, FailAt(p) - 1), LAMBDA line : MatchesAll(p, line))

RaisedAt(p) ==
    [kind |-> IF Items(p)[FailAt(p)] = RaiseItem THEN "UpstreamError" ELSE "TypeError",
     at |-> FailAt(p) - 1]

\* C11: when the test of a stage or the upstream raises while a pull is
\* served, the caller of the pull gets that exception; the passing records
\* ahead of it were handed out unchanged, no record behind it is ever handed
\* out, the caller never sees a plain end of sequence in its place, and the
\* generators are ended, so later pulls give no record.
C11_FailurePropagates ==
    \A p \in pipes :
        Len(chain[p]) >= 2 =>
            IF FailAt(p) = 0
            THEN failure[p] = None
            ELSE /\ IsPrefix(received[p], Before(p))
                 /\ ended[p] = "exhausted" => failure[p] # None
                 /\ failure[p] # None =>
                       /\ failure[p] = RaisedAt(p)
                       /\ received[p] = Before(p)
                       /\ sig[p].t # "yield"
                       /\ AtRest(p) => \A s \in 2..Len(chain[p]) : gen[p][s].state = "done"

\* A record, then an element that is not a str, then a record: the first
\* record was handed out, the TypeError reached the caller, and two later
\* pulls gave nothing.
C11_Witness ==
    /\ chain[1] = <<[kind |-> "iter", items |-> <<FormatLine(0), NotStr, FormatLine(0)>>],
                    [kind |-> "search_logs", needle |-> LoglineWord]>>
    /\ failure[1] = [kind |-> "TypeError", at |-> 1]
    /\ received[1] = <<FormatLine(0)>>
    /\ ended[1] = "exhausted"
    /\ AtRest(1)
    /\ pulls[1] = 4

\* Everything the model keeps for one sequence and its consumer.
PipeState(q) ==
    <<gen[q], ctl[q], sig[q], out[q], received[q], pulls[q], realized[q], dropped[q],
      ended[q], failure[q]>>

\* The sequence consumed alone: the source has produced the first records
\* of its own 0..N-1 in order and its cursor is their number, the caller has
\* the first of its own passing records, all of them at the end.
ConsumedAlone(p) ==
    /\ realized[p] = [k \in 1..Len(realized[p]) |-> FormatLine(k - 1)]
    /\ IsPrefix(realized[p], Items(p))
    /\ gen[p][1].i = Len(realized[p])
    /\ IsPrefix(received[p], Expected(p))
    /\ ended[p] = "exhausted" => received[p] = Expected(p) /\ realized[p] = Items(p)
    /\ ended[p] = "break" => Len(received[p]) = take[p] + 1

\* C12: two sequences from two calls of read_large_file, with the chains
\* built on them, are independent.  Whatever the interleaving, a step
\* serving a pull on one leaves everything of the other (cursor, records
\* produced and handed out, position of its consumer) unchanged, and each
\* hands out its own records in order as if it were consumed alone.
C12_Independent ==
    /\ [](\A p \in pipes : ConsumedAlone(p))
    /\ [][\E p \in pipes : \A q \in pipes \ {p} : PipeState(q)' = PipeState(q)]_vars

\* Sequence 1 stands between its first and second pull while sequence 2 has
\* produced both of its records and handed out the one that passes.
C12_Witness ==
    /\ pipes = {1, 2}
    /\ chain[1] = <<[kind |-> "read_large_file", num_lines |-> 2]>>
    /\ chain[2] = <<[kind |-> "read_large_file", num_lines |-> 2],
                    [kind |-> "search_logs", needle |-> <<"1">>]>>
    /\ AtRest(1) /\ pulls[1] = 1 /\ received[1] = <<FormatLine(0)>>
    /\ gen[1][1].i = 1
    /\ realized[2] = <<FormatLine(0), FormatLine(1)>>
    /\ received[2] = <<FormatLine(1)>>
    /\ gen[2][1].i = 2

\* C13: composition of stages is associative in effect.  The second stage
\* applied to the records the first stage gave, and the second stage
\* composed over the first before any pull, give the same records: the
\* records of the source that pass the predicate of both stages, in the
\* order of the source.
C13_GroupingIrrelevant ==
    /\ (2 \in pipes /\ ended[2] = "exhausted") =>
           /\ ended[1] = "exhausted"
           /\ received[1] = SelectSeq(Items(1), LAMBDA line : Matches(chain[1][2], line))
           /\ received[2] = SelectSeq(received[1], LAMBDA line : Matches(chain[2][2], line))
    /\ (3 \in pipes /\ ended[3] = "exhausted") =>
           /\ received[3] = received[2]
           /\ received[3] = SelectSeq(Items(1), LAMBDA line :
                                Matches(chain[1][2], line) /\ Matches(chain[2][2], line))

\* search_logs for "1" then filter_logs for ERROR over three records of
\* which one passes both: both groupings reached their end with that record.
C13_Witness ==
    /\ 3 \in pipes
    /\ ended[3] = "exhausted"
    /\ chain[3] = <<[kind |-> "iter", items |-> <<FormatLine(0), ErrorLine, FormatLine(0)>>],
                    [kind |-> "search_logs", needle |-> LoglineWord],
                    [kind |-> "filter_logs", status |-> ErrorWord]>>
    /\ received[1] = <<FormatLine(0), ErrorLine, FormatLine(0)>>
    /\ received[2] = <<ErrorLine>>
    /\ received[3] = <<ErrorLine>>

\* ---------------------------------------------- claims on ImmutableConfig

\* The first construction that used the key of construction i.
First(i) == CHOOSE j \in 1..i : made[j].key = made[i].key /\ \A h \in 1..(j - 1) : made[h].key # made[i].key

\* C14: an ImmutableConfig is fully immutable after creation.  Every
\* assignment to an attribute of an instance a construction returned raises
\* AttributeError, and the instance stays locked with the key and the value
\* of its construction.
C14_FullyImmutable ==
    /\ \A i \in 1..Len(sets) : sets[i].raised
    /\ \A i \in 1..Len(made) :
          /\ Locked(attrs[made[i].obj])
          /\ attrs[made[i].obj]["key"] = made[i].key
          /\ attrs[made[i].obj]["value"] = made[First(i)].value

\* C15: after any sequence of constructions there is one instance per key.
\* A construction with a key already used returns the instance of the first
\* construction with that key, constructions with different keys return
\* different instances, and the instance has the key and the value of the
\* first construction.
C15_OneInstancePerKey ==
    /\ \A i, j \in 1..Len(made) : (made[i].key = made[j].key) <=> (made[i].obj = made[j].obj)
    /\ \A i \in 1..Len(made) :
          /\ made[i].obj = made[First(i)].obj
          /\ instances[made[i].key] = made[i].obj
          /\ attrs[made[i].obj]["key"] = made[i].key
          /\ attrs[made[i].obj]["value"] = made[First(i)].value
    /\ Len(attrs) = Cardinality(DOMAIN instances)

\* ImmutableConfig("API_URL", "https://example.org") and then
\* ImmutableConfig("API_URL", "ignored-value"): the same instance, with the
\* first value.
C15_Witness ==
    /\ Len(made) = 2
    /\ made[1] = [key |-> "API_URL", value |-> "https://example.org", obj |-> 1]
    /\ made[2] = [key |-> "API_URL", value |-> "ignored-value", obj |-> 1]
    /\ attrs[1]["value"] = "https://example.org"
    /\ building = None

====
